---- MODULE Spec2Model ----
(***************************************************************************)
(* Model of compare_folders.py: the tree indexer (scan_folder), the        *)
(* reconciler (compare_folders) and the table renderer                     *)
(* (display_comparison_table), driven by main.                             *)
(*                                                                         *)
(* A relative path is a sequence of code points.  A file is either a byte  *)
(* string that open()/read() yields, or a file on which open() raises.     *)
(* The file system is static during a run; os.walk may list the files of   *)
(* a directory in any order.                                               *)
(***************************************************************************)
EXTENDS Integers, Sequences, FiniteSets, TLC

\* ------------------------------------------------------------------ bounds
MaxArgs == 3        \* at most this many folder arguments (at least 2)
MaxFiles == 2       \* at most this many files in one directory tree

\* Folder arguments as str(Path(...)) yields them.
DirNames == {"A", "B"}

\* Relative paths: "a", "A", "B" as code-point sequences.
Paths == {<<97>>, <<65>>, <<66>>}

\* File contents (byte strings); Raises marks a file open() fails on.
Contents == {"1", "2"}
Raises == "<raises>"
FileStates == Contents \cup {Raises}

\* ------------------------------------------------------------ pure helpers
\* str.lower() on the code points used here (ASCII upper case -> lower case).
Lower(p) == [i \in 1..Len(p) |-> IF p[i] >= 65 /\ p[i] <= 90 THEN p[i] + 32 ELSE p[i]]

\* hashlib.md5(content).hexdigest()
MD5(c) ==
  CASE c = "1" -> "c4ca4238a0b923820dcc509a6f75849b"
    [] c = "2" -> "c81e728d9d4c2f636f067f89cc14862c"
    [] OTHER -> "d41d8cd98f00b204e9800998ecf8427e"

\* calculate_checksum: the digest, or "ERROR" when reading raises.
calculate_checksum(f) == IF f = Raises THEN "ERROR" ELSE MD5(f)

\* Python's str comparison a < b: by the first differing code point, a proper
\* prefix being smaller.
StrLess(a, b) ==
  \/ /\ Len(a) < Len(b)
     /\ \A i \in 1..Len(a) : a[i] = b[i]
  \/ \E i \in 1..(IF Len(a) < Len(b) THEN Len(a) ELSE Len(b)) :
        /\ a[i] < b[i]
        /\ \A j \in 1..(i - 1) : a[j] = b[j]

RECURSIVE sorted(_)
\* sorted(keys): ascending list of a set of strings.
sorted(S) ==
  IF S = {} THEN <<>>
  ELSE LET m == CHOOSE x \in S : \A y \in S : x = y \/ StrLess(x, y)
       IN <<m>> \o sorted(S \ {m})

\* all(c == ref for c in cs) and any(c == ref for c in cs)
AllEqualTo(cs, ref) == \A i \in 1..Len(cs) : cs[i] = ref
AnyEqualTo(cs, ref) == \E i \in 1..Len(cs) : cs[i] = ref

EmptyDict == [x \in {} |-> 0]
DictSet(d, k, v) == [x \in (DOMAIN d) \cup {k} |-> IF x = k THEN v ELSE d[x]]

\* Status texts; both MULTICASE flavours print "MULTICASE", green or yellow.
OK == "OK"
MISMATCH == "MISMATCH"
MISSING == "MISSING"
MULTICASE_OK == "MULTICASE(green)"
MULTICASE_MISMATCH == "MULTICASE(yellow)"

\* ------------------------------------------------------------------- state
VARIABLES
  fs,               \* DirNames -> [exists, files]: the file system
  folder_paths,     \* main: the argument list
  pc,               \* position in main / compare_folders / scan_folder / display
  idx,              \* index into folder_paths of the folder being scanned
  file_map,         \* scan_folder (filtered): key -> list of paths
  primary_checksums,
  primary_files,
  folder_checksums, \* dict: str(folder) -> index
  folder_keys,      \* insertion order of folder_checksums' keys
  file_checksums,   \* key -> reference record
  sorted_files,     \* display: sorted keys
  rows,             \* display: the rows printed
  totals,           \* display: the summary counters
  summary,          \* the summary block once printed (or NoSummary)
  messages,         \* explanatory messages printed
  walked,           \* history: <<argument index, path>> os.walk has yielded
  hashed            \* history: <<argument index, path>> passed to calculate_checksum

vars == <<fs, folder_paths, pc, idx, file_map, primary_checksums, primary_files,
          folder_checksums, folder_keys, file_checksums, sorted_files, rows,
          totals, summary, messages, walked, hashed>>

NoSummary == [printed |-> FALSE]
ZeroTotals == [total_files |-> 0, total_ok |-> 0, total_mismatch |-> 0,
               total_missing |-> 0, total_multicase_ok |-> 0,
               total_multicase_mismatch |-> 0]

Trees ==
  UNION {[S -> FileStates] : S \in {T \in SUBSET Paths : Cardinality(T) <= MaxFiles}}

\* main, lines 337-339: two or more folders.  The folder names are
\* interchangeable, so the primary is called "A".
ArgLists == {a \in UNION {[1..n -> DirNames] : n \in 2..MaxArgs} : a[1] = "A"}

\* The files a file system may hold, in a fixed order.
Slots == <<<<"A", <<97>>>>, <<"A", <<65>>>>, <<"A", <<66>>>>,
          <<"B", <<97>>>>, <<"B", <<65>>>>, <<"B", <<66>>>>>>
Holds(f, i, c) ==
  /\ Slots[i][2] \in DOMAIN f[Slots[i][1]].files
  /\ f[Slots[i][1]].files[Slots[i][2]] = c
\* Contents are only ever compared, through their digests, so the two byte
\* strings are interchangeable: of two file systems that differ by swapping
\* "1" and "2" everywhere, the one whose first readable file holds "1" is taken.
ContentsInOrder(f) ==
  \A i \in DOMAIN Slots : Holds(f, i, "2") => \E j \in 1..(i - 1) : Holds(f, j, "1")

Init ==
  /\ folder_paths \in ArgLists
  /\ fs \in [DirNames -> [exists : BOOLEAN, files : Trees]]
  /\ \A d \in DirNames : ~fs[d].exists => fs[d].files = EmptyDict
  /\ ContentsInOrder(fs)
  \* a directory no argument names plays no part in the run
  /\ \A d \in DirNames : (\A i \in 1..Len(folder_paths) : folder_paths[i] # d)
                            => ~fs[d].exists
  /\ pc = "scan"
  /\ idx = 1
  /\ file_map = EmptyDict
  /\ primary_checksums = EmptyDict
  /\ primary_files = {}
  /\ folder_checksums = EmptyDict
  /\ folder_keys = <<>>
  /\ file_checksums = EmptyDict
  /\ sorted_files = <<>>
  /\ rows = <<>>
  /\ totals = ZeroTotals
  /\ summary = NoSummary
  /\ messages = <<>>
  /\ walked = {}
  /\ hashed = {}

\* ------------------------------------------------------------ scan_folder
Folder == folder_paths[idx]
Files == fs[Folder].files

\* The orders in which os.walk may yield the files of a tree.
WalkOrders(files) ==
  {o \in [1..Cardinality(DOMAIN files) -> DOMAIN files] :
     \A i, j \in DOMAIN o : i # j => o[i] # o[j]}

\* compare_folders, lines 172-176 and 184: keep what scan_folder returned and
\* go on to the next folder.  Assigning to a key the dict already holds keeps
\* the key's position.
Store(result) ==
  /\ folder_checksums' = DictSet(folder_checksums, Folder, result)
  /\ folder_keys' = IF Folder \in DOMAIN folder_checksums
                      THEN folder_keys ELSE Append(folder_keys, Folder)
  /\ primary_checksums' = IF idx = 1 THEN result ELSE primary_checksums
  /\ primary_files' = IF idx = 1 THEN DOMAIN result ELSE primary_files
  /\ idx' = idx + 1
  /\ pc' = IF idx < Len(folder_paths) THEN "scan" ELSE "reconcile"

\* variant: a folder that does not exist ends the run
ScanMissing_Abort ==
  /\ pc = "scan"
  /\ ~fs[Folder].exists
  /\ messages' = Append(messages, <<"does not exist", idx>>)
  /\ pc' = "done"
  /\ UNCHANGED <<fs, folder_paths, idx, file_map, primary_checksums,
                 primary_files, folder_checksums, folder_keys, file_checksums,
                 sorted_files, rows, totals, summary, walked, hashed>>

\* lines 47-49: the folder does not exist; an empty index is returned.
ScanMissing ==
  /\ pc = "scan"
  /\ ~fs[Folder].exists
  /\ messages' = Append(messages, <<"does not exist", idx>>)
  /\ Store(EmptyDict)
  /\ UNCHANGED <<fs, folder_paths, file_map, file_checksums, sorted_files,
                 rows, totals, summary, walked, hashed>>

\* lines 85-94: the index after one more file was found and hashed.
AddFile(index, p, f) ==
  LET k == Lower(p)
      old == IF k \in DOMAIN index THEN index[k]
             ELSE [original_paths |-> <<>>, checksums |-> <<>>]
  IN DictSet(index, k,
             [original_paths |-> Append(old.original_paths, p),
              checksums |-> Append(old.checksums, calculate_checksum(f))])

RECURSIVE UnfilteredIndex(_, _, _)
\* lines 66-94: the loop over the walk, from its n-th file on.
UnfilteredIndex(order, files, n) ==
  IF n = 0 THEN EmptyDict
  ELSE AddFile(UnfilteredIndex(order, files, n - 1), order[n], files[order[n]])

\* lines 53-97 and 151, then 172-176: the primary tree is walked, every file
\* hashed as it is found.
ScanPrimary ==
  /\ pc = "scan"
  /\ idx = 1
  /\ fs[Folder].exists
  /\ \E order \in WalkOrders(Files) :
        Store(UnfilteredIndex(order, Files, Len(order)))
  /\ walked' = walked \cup {<<idx, p>> : p \in DOMAIN Files}
  /\ hashed' = hashed \cup {<<idx, p>> : p \in DOMAIN Files}
  /\ UNCHANGED <<fs, folder_paths, file_map, file_checksums, sorted_files,
                 rows, totals, summary, messages>>

\* variant: file_map keyed by the path as found, not lower-cased
MapFile_CaseSensitive(fm, p) ==
  DictSet(fm, p, IF p \in DOMAIN fm THEN Append(fm[p], p) ELSE <<p>>)

\* lines 113-118: file_map after one more file was found.
MapFile(fm, p) ==
  DictSet(fm, Lower(p),
          IF Lower(p) \in DOMAIN fm THEN Append(fm[Lower(p)], p) ELSE <<p>>)

RECURSIVE FileMap(_, _)
\* lines 107-118: the loop over the walk.
FileMap(order, n) ==
  IF n = 0 THEN EmptyDict ELSE MapFile(FileMap(order, n - 1), order[n])

\* lines 99-118: a secondary tree is walked; nothing is hashed yet.
SecWalk ==
  /\ pc = "scan"
  /\ idx > 1
  /\ fs[Folder].exists
  /\ \E order \in WalkOrders(Files) : file_map' = FileMap(order, Len(order))
  /\ walked' = walked \cup {<<idx, p>> : p \in DOMAIN Files}
  /\ pc' = "filter"
  /\ UNCHANGED <<fs, folder_paths, idx, primary_checksums, primary_files,
                 folder_checksums, folder_keys, file_checksums, sorted_files,
                 rows, totals, summary, messages, hashed>>

\* line 101
lowercase_filter_paths(filter_paths) == {Lower(k) : k \in filter_paths}

\* variant: every key the tree holds, the filter ignored
KeysToHash_Unfiltered(filter_paths, fm) == DOMAIN fm

\* lines 125 and 139: the keys of the filter the tree holds.
KeysToHash(filter_paths, fm) == lowercase_filter_paths(filter_paths) \cap DOMAIN fm

\* variant: only the first case variant of a key is kept
HashEntry_FirstOnly(paths, files) ==
  [original_paths |-> <<paths[1]>>,
   checksums |-> <<calculate_checksum(files[paths[1]])>>]

\* lines 140-146: the entry built for a key the tree holds.
HashEntry(paths, files) ==
  [original_paths |-> paths,
   checksums |-> [i \in 1..Len(paths) |-> calculate_checksum(files[paths[i]])]]

\* lines 120-151, then 184: the loop over the filter; every case variant of a
\* key of the filter is hashed.
SecFilter ==
  /\ pc = "filter"
  /\ LET keys == KeysToHash(primary_files, file_map)
     IN /\ Store([k \in keys |-> HashEntry(file_map[k], Files)])
        /\ hashed' = hashed \cup
             UNION {{<<idx, file_map[k][i]>> : i \in 1..Len(file_map[k])} : k \in keys}
  /\ file_map' = EmptyDict
  /\ UNCHANGED <<fs, folder_paths, file_checksums, sorted_files, rows, totals,
                 summary, messages, walked>>

\* -------------------------------------------------------- compare_folders
\* variant: multicase only from the third variant on
ReferenceRecord_OffByOne(file_data) ==
  [display_path |-> file_data.original_paths[1],
   reference_checksum |-> file_data.checksums[1],
   is_multicase |-> Len(file_data.original_paths) > 2,
   all_checksums_equal |-> AllEqualTo(file_data.checksums, file_data.checksums[1])]

\* lines 189-204: the reference record of one primary entry.
ReferenceRecord(file_data) ==
  [display_path |-> file_data.original_paths[1],
   reference_checksum |-> file_data.checksums[1],
   is_multicase |-> Len(file_data.original_paths) > 1,
   all_checksums_equal |-> AllEqualTo(file_data.checksums, file_data.checksums[1])]

\* lines 186-209
Reconcile ==
  /\ pc = "reconcile"
  /\ file_checksums' = [k \in primary_files |-> ReferenceRecord(primary_checksums[k])]
  /\ pc' = "main"
  /\ UNCHANGED <<fs, folder_paths, idx, file_map, primary_checksums,
                 primary_files, folder_checksums, folder_keys, sorted_files,
                 rows, totals, summary, messages, walked, hashed>>

\* ------------------------------------------------------------------ main
\* lines 352-354: nothing to compare.
MainNoFiles ==
  /\ pc = "main"
  /\ DOMAIN file_checksums = {}
  /\ messages' = Append(messages, <<"No files found for comparison.", 0>>)
  /\ pc' = "done"
  /\ UNCHANGED <<fs, folder_paths, idx, file_map, primary_checksums,
                 primary_files, folder_checksums, folder_keys, file_checksums,
                 sorted_files, rows, totals, summary, walked, hashed>>

\* ----------------------------------------------- display_comparison_table
\* variant: the keys in the order of their display paths
SortedFiles_ByDisplayPath(fc) ==
  LET shown == sorted({fc[k].display_path : k \in DOMAIN fc})
  IN [i \in 1..Len(shown) |-> Lower(shown[i])]

\* line 247
SortedFiles(fc) == sorted(DOMAIN fc)

\* lines 271-280: the primary column.
PrimaryStatus(file_data) ==
  IF file_data.is_multicase
    THEN IF file_data.all_checksums_equal THEN MULTICASE_OK ELSE MULTICASE_MISMATCH
    ELSE OK

\* variant: several variants are fine as soon as one matches the reference
SecondaryStatus_PartialMatchOK(reference_checksum, folder_files, k) ==
  IF k \notin DOMAIN folder_files THEN MISSING
  ELSE LET secondary_file_data == folder_files[k]
           any_checksum_matches ==
             AnyEqualTo(secondary_file_data.checksums, reference_checksum)
       IN IF Len(secondary_file_data.original_paths) > 1
            THEN IF any_checksum_matches THEN MULTICASE_OK ELSE MULTICASE_MISMATCH
            ELSE IF any_checksum_matches THEN OK ELSE MISMATCH

\* lines 288-314: a secondary column.
SecondaryStatus(reference_checksum, folder_files, k) ==
  IF k \notin DOMAIN folder_files THEN MISSING
  ELSE LET secondary_file_data == folder_files[k]
           is_secondary_multicase == Len(secondary_file_data.original_paths) > 1
           all_secondary_checksums_equal ==
             AllEqualTo(secondary_file_data.checksums, secondary_file_data.checksums[1])
           any_checksum_matches ==
             AnyEqualTo(secondary_file_data.checksums, reference_checksum)
       IN IF is_secondary_multicase
            THEN IF any_checksum_matches /\ all_secondary_checksums_equal
                   THEN MULTICASE_OK ELSE MULTICASE_MISMATCH
            ELSE IF any_checksum_matches THEN OK ELSE MISMATCH

\* lines 268-316: the cells of a row, the primary's first, then one for each
\* further key of folder_checksums.
RowStatuses(k) ==
  [c \in 1..Len(folder_keys) |->
     IF c = 1 THEN PrimaryStatus(file_checksums[k])
     ELSE SecondaryStatus(file_checksums[k].reference_checksum,
                          folder_checksums[folder_keys[c]], k)]

\* variant: a green MULTICASE is counted as OK
Count_MulticaseAsOK(t, status) ==
  CASE status = OK -> [t EXCEPT !.total_ok = @ + 1]
    [] status = MISMATCH -> [t EXCEPT !.total_mismatch = @ + 1]
    [] status = MISSING -> [t EXCEPT !.total_missing = @ + 1]
    [] status = MULTICASE_OK -> [t EXCEPT !.total_ok = @ + 1]
    [] status = MULTICASE_MISMATCH -> [t EXCEPT !.total_multicase_mismatch = @ + 1]

\* the "total_... += 1" beside each status assignment
Count(t, status) ==
  CASE status = OK -> [t EXCEPT !.total_ok = @ + 1]
    [] status = MISMATCH -> [t EXCEPT !.total_mismatch = @ + 1]
    [] status = MISSING -> [t EXCEPT !.total_missing = @ + 1]
    [] status = MULTICASE_OK -> [t EXCEPT !.total_multicase_ok = @ + 1]
    [] status = MULTICASE_MISMATCH -> [t EXCEPT !.total_multicase_mismatch = @ + 1]

RECURSIVE CountAll(_, _, _)
\* the counters after the first n cells of a row
CountAll(t, cells, n) ==
  IF n = 0 THEN t ELSE Count(CountAll(t, cells, n - 1), cells[n])

\* lines 258-318, one iteration: the row of key k as printed.
Row(k) ==
  [key |-> k,
   display_path |-> file_checksums[k].display_path,
   checksum |-> file_checksums[k].reference_checksum,
   statuses |-> RowStatuses(k)]

RECURSIVE CountRows(_, _, _)
\* lines 251-318: the counters after the first n rows.
CountRows(t, keys, n) ==
  IF n = 0 THEN t
  ELSE LET cells == RowStatuses(keys[n])
       IN CountAll(CountRows(t, keys, n - 1), cells, Len(cells))

\* line 356 and lines 230-327: the table, a row for each sorted key, and the
\* summary block.
Display ==
  /\ pc = "main"
  /\ DOMAIN file_checksums # {}
  /\ LET keys == SortedFiles(file_checksums)
     IN /\ sorted_files' = keys
        /\ rows' = [r \in 1..Len(keys) |-> Row(keys[r])]
        /\ totals' = CountRows([ZeroTotals EXCEPT !.total_files = Len(keys)],
                               keys, Len(keys))
        /\ summary' = [printed |-> TRUE, totals |-> totals']
  /\ pc' = "done"
  /\ UNCHANGED <<fs, folder_paths, idx, file_map, primary_checksums,
                 primary_files, folder_checksums, folder_keys, file_checksums,
                 messages, walked, hashed>>

Next ==
  \/ ScanMissing
  \/ ScanPrimary
  \/ SecWalk
  \/ SecFilter
  \/ Reconcile
  \/ MainNoFiles
  \/ Display

Spec == Init /\ [][Next]_vars

\* ================================================================ claims
\* Vocabulary of the claims, stated over the file system and the output.
Range(q) == {q[i] : i \in DOMAIN q}
PrimaryTree == fs[folder_paths[1]].files
Variants(files, k) == {p \in DOMAIN files : Lower(p) = k}
PrimaryKeys == {Lower(p) : p \in DOMAIN PrimaryTree}
HashOf(files, p) == IF files[p] = Raises THEN "ERROR" ELSE MD5(files[p])
Readable(files, p) == files[p] \in Contents
\* the file of the primary tree whose hash is the reference hash of key k
ReferenceFile(k) == primary_checksums[k].original_paths[1]
ReferenceHash(k) == primary_checksums[k].checksums[1]
\* the tree behind column c of the table
ColumnTree(c) == fs[folder_keys[c]].files
RowIds == 1..Len(rows)
SecondaryCells == {rc \in RowIds \X (2..Len(folder_keys)) : TRUE}
AllCells == RowIds \X (1..Len(folder_keys))
Cell(rc) == rows[rc[1]].statuses[rc[2]]
CellsWith(status) == {rc \in AllCells : Cell(rc) = status}
TablePrinted == pc = "done" /\ summary.printed

RECURSIVE LexBefore(_, _)
LexBefore(a, b) ==
  IF a = <<>> THEN b # <<>>
  ELSE IF b = <<>> THEN FALSE
  ELSE \/ Head(a) < Head(b)
       \/ Head(a) = Head(b) /\ LexBefore(Tail(a), Tail(b))

\* C1: in every printed row, a secondary column whose index holds the key shows
\* a status fixed by the primary's reference hash and the secondary entry's hash
\* list: with more than one variant, MULTICASE-OK exactly when the reference hash
\* is among the hashes and all hashes are equal, else MULTICASE-MISMATCH; with one
\* variant, OK exactly when its hash is the reference hash, else MISMATCH.
C1_SecondaryStatusByHashes ==
  \A rc \in SecondaryCells :
    LET k == rows[rc[1]].key
        index == folder_checksums[folder_keys[rc[2]]]
    IN k \in DOMAIN index =>
         LET hs == index[k].checksums
             ref == ReferenceHash(k)
             uniform == Cardinality(Range(hs)) = 1
         IN IF Len(index[k].original_paths) > 1
              THEN /\ Cell(rc) \in {MULTICASE_OK, MULTICASE_MISMATCH}
                   /\ Cell(rc) = MULTICASE_OK <=> (ref \in Range(hs) /\ uniform)
              ELSE /\ Cell(rc) \in {OK, MISMATCH}
                   /\ Cell(rc) = OK <=> hs[1] = ref

\* a secondary entry of two variants of which only one matches the reference
C1_Witness ==
  \E rc \in SecondaryCells :
    LET k == rows[rc[1]].key
        index == folder_checksums[folder_keys[rc[2]]]
    IN /\ k \in DOMAIN index
       /\ Len(index[k].checksums) = 2
       /\ ReferenceHash(k) \in Range(index[k].checksums)
       /\ Cardinality(Range(index[k].checksums)) = 2
       /\ Cell(rc) = MULTICASE_MISMATCH

\* C2: the rows are the lower-cased keys of the primary tree's files, each once,
\* in ascending lexicographic order of the key, whatever the secondary trees hold.
C2_RowsAreSortedPrimaryKeys ==
  /\ \A r \in RowIds : rows[r].key \in PrimaryKeys
  /\ \A r1, r2 \in RowIds : r1 < r2 => LexBefore(rows[r1].key, rows[r2].key)
  /\ TablePrinted => {rows[r].key : r \in RowIds} = PrimaryKeys

\* two rows whose display paths sort the other way round ("a" before "B"), beside
\* a secondary tree holding a path the primary does not hold
C2_Witness ==
  /\ TablePrinted
  /\ Len(rows) = 2
  /\ LexBefore(rows[2].display_path, rows[1].display_path)
  /\ \E c \in 2..Len(folder_keys) :
       \E p \in DOMAIN ColumnTree(c) : p \notin DOMAIN PrimaryTree

\* C3: presence in a secondary tree is decided without regard to case.  The
\* index scan_folder returns for a secondary (looked at when it has just been
\* stored) holds a primary key exactly when the tree holds a file whose path
\* lower-cases to it, and then lists every such file with its hash; a cell shows
\* MISSING exactly when no such file exists, total_missing counts exactly those
\* cells, and a single secondary file that lower-cases to the key and whose bytes
\* are those of the primary's reference file shows OK.
C3_CaseInsensitivePresence ==
  /\ \A i \in 2..Len(folder_paths) : (i = idx - 1 /\ pc \in {"scan", "reconcile"}) =>
       LET files == fs[folder_paths[i]].files
           index == folder_checksums[folder_paths[i]]
       IN \A k \in PrimaryKeys :
            /\ k \in DOMAIN index <=> Variants(files, k) # {}
            /\ k \in DOMAIN index =>
                 /\ Len(index[k].original_paths) = Cardinality(Variants(files, k))
                 /\ Len(index[k].checksums) = Cardinality(Variants(files, k))
                 /\ {<<index[k].original_paths[n], index[k].checksums[n]>> :
                        n \in 1..Len(index[k].original_paths)}
                      = {<<p, HashOf(files, p)>> : p \in Variants(files, k)}
  /\ \A rc \in SecondaryCells :
       Cell(rc) = MISSING <=> Variants(ColumnTree(rc[2]), rows[rc[1]].key) = {}
  /\ totals.total_missing =
       Cardinality({rc \in SecondaryCells :
                      Variants(ColumnTree(rc[2]), rows[rc[1]].key) = {}})
  /\ \A rc \in SecondaryCells :
       LET k == rows[rc[1]].key
           vs == Variants(ColumnTree(rc[2]), k)
       IN (/\ Cardinality(vs) = 1
           /\ Readable(PrimaryTree, ReferenceFile(k))
           /\ \A p \in vs : ColumnTree(rc[2])[p] = PrimaryTree[ReferenceFile(k)])
          => Cell(rc) = OK

\* one row whose only secondary file differs from the primary's path by case
\* and is shown OK, and one row shown MISSING and counted once
C3_Witness ==
  /\ TablePrinted
  /\ totals.total_missing = 1
  /\ \E rc \in SecondaryCells : Cell(rc) = MISSING
  /\ \E rc \in SecondaryCells :
       LET k == rows[rc[1]].key
           vs == Variants(ColumnTree(rc[2]), k)
       IN /\ Cardinality(vs) = 1
          /\ ReferenceFile(k) \notin vs
          /\ Readable(PrimaryTree, ReferenceFile(k))
          /\ \A p \in vs : ColumnTree(rc[2])[p] = PrimaryTree[ReferenceFile(k)]
          /\ Cell(rc) = OK

\* C4 (as claimed): wherever the key is present in a secondary tree and the
\* primary's reference file or one of the secondary's variants could not be read,
\* the cell is a mismatch: MISMATCH, or MULTICASE-MISMATCH for several variants.
C4_UnreadableIsMismatch ==
  \A rc \in SecondaryCells :
    LET k == rows[rc[1]].key
        files == ColumnTree(rc[2])
        vs == Variants(files, k)
    IN (/\ vs # {}
        /\ \/ PrimaryTree[ReferenceFile(k)] = Raises
           \/ \E p \in vs : files[p] = Raises)
       => Cell(rc) = (IF Cardinality(vs) > 1 THEN MULTICASE_MISMATCH ELSE MISMATCH)

\* every folder after the first is another folder that holds the primary's
\* files, byte for byte
AllCopies ==
  /\ fs[folder_paths[1]].exists
  /\ \A i \in 2..Len(folder_paths) :
       /\ folder_paths[i] # folder_paths[1]
       /\ fs[folder_paths[i]].exists
       /\ fs[folder_paths[i]].files = PrimaryTree

\* C5 (as claimed): against identical copies every cell is OK, or MULTICASE-OK
\* where the primary holds case-duplicates of equal content, and the MISMATCH and
\* MISSING counters are zero.
C5_CopiesAllOK ==
  (TablePrinted /\ AllCopies) =>
    /\ \A rc \in AllCells :
         LET vs == Variants(PrimaryTree, rows[rc[1]].key)
         IN /\ Cell(rc) \in {OK, MULTICASE_OK}
            /\ Cell(rc) = MULTICASE_OK =>
                 /\ Cardinality(vs) > 1
                 /\ Cardinality({PrimaryTree[p] : p \in vs}) = 1
    /\ totals.total_mismatch = 0
    /\ totals.total_missing = 0

\* C5 (amended): against identical copies every cell of a row is OK when the
\* primary holds one file for the key, MULTICASE-OK when it holds several whose
\* hashes are all equal, and MULTICASE-MISMATCH when it holds several whose hashes
\* differ; the MISMATCH and MISSING counters are zero.
C5_CopiesRepeatPrimaryStatus ==
  (TablePrinted /\ AllCopies) =>
    /\ \A rc \in AllCells :
         LET vs == Variants(PrimaryTree, rows[rc[1]].key)
         IN Cell(rc) = (IF Cardinality(vs) = 1 THEN OK
                        ELSE IF Cardinality({HashOf(PrimaryTree, p) : p \in vs}) = 1
                               THEN MULTICASE_OK
                               ELSE MULTICASE_MISMATCH)
    /\ totals.total_mismatch = 0
    /\ totals.total_missing = 0

\* a copy in another folder of a primary with case-duplicates of different bytes
C5_Witness ==
  /\ TablePrinted
  /\ AllCopies
  /\ Len(folder_keys) >= 2
  /\ \E rc \in SecondaryCells : Cell(rc) = MULTICASE_MISMATCH
  /\ \E rc \in AllCells : rc[2] = 1 /\ Cell(rc) = MULTICASE_MISMATCH

\* C6: each of the five status counters is the number of cells of the table
\* that show its status, the primary column included, so the five sum to rows
\* times columns; total files is the number of rows; one primary file matched by
\* the one file of a single secondary column gives OK = 2 in the summary.
C6_CounterAccounting ==
  /\ totals.total_ok = Cardinality(CellsWith(OK))
  /\ totals.total_mismatch = Cardinality(CellsWith(MISMATCH))
  /\ totals.total_missing = Cardinality(CellsWith(MISSING))
  /\ totals.total_multicase_ok = Cardinality(CellsWith(MULTICASE_OK))
  /\ totals.total_multicase_mismatch = Cardinality(CellsWith(MULTICASE_MISMATCH))
  /\ totals.total_ok + totals.total_mismatch + totals.total_missing
       + totals.total_multicase_ok + totals.total_multicase_mismatch
     = Len(rows) * Len(folder_keys)
  /\ totals.total_files = Len(sorted_files)
  /\ TablePrinted =>
       /\ summary.totals = totals
       /\ summary.totals.total_files = Len(rows)
       /\ (/\ Cardinality(DOMAIN PrimaryTree) = 1
           /\ Len(folder_keys) = 2
           /\ Cardinality(DOMAIN ColumnTree(2)) = 1
           /\ \A p \in DOMAIN ColumnTree(2) :
                /\ Lower(p) \in PrimaryKeys
                /\ HashOf(ColumnTree(2), p) = ReferenceHash(Lower(p)))
          => summary.totals.total_ok = 2

\* the summary of one primary file matched by one secondary file
C6_Witness ==
  /\ TablePrinted
  /\ Cardinality(DOMAIN PrimaryTree) = 1
  /\ Len(folder_keys) = 2
  /\ Cardinality(DOMAIN ColumnTree(2)) = 1
  /\ Len(rows) = 1
  /\ rows[1].statuses = <<OK, OK>>
  /\ summary.totals.total_ok = 2

\* C7: the primary column shows the yellow MULTICASE exactly when the primary
\* holds several case variants of the key and one hashes differently from the
\* first found, the green MULTICASE exactly when it holds several and all hash
\* like the first, OK otherwise, never MISMATCH or MISSING; total_multicase_mismatch
\* gets exactly 1 through the primary column for each such yellow row, and two
\* variants of different bytes make the row yellow.
C7_PrimaryColumn ==
  /\ \A r \in RowIds :
       LET k == rows[r].key
           vs == Variants(PrimaryTree, k)
           differs == \E p \in vs :
                        HashOf(PrimaryTree, p) # HashOf(PrimaryTree, ReferenceFile(k))
           status == rows[r].statuses[1]
       IN /\ ReferenceFile(k) \in vs
          /\ status = MULTICASE_MISMATCH <=> (Cardinality(vs) > 1 /\ differs)
          /\ status = MULTICASE_OK <=> (Cardinality(vs) > 1 /\ ~differs)
          /\ status = OK <=> Cardinality(vs) = 1
          /\ status \notin {MISMATCH, MISSING}
          /\ (\E p, q \in vs : /\ Readable(PrimaryTree, p)
                               /\ Readable(PrimaryTree, q)
                               /\ PrimaryTree[p] # PrimaryTree[q])
               => status = MULTICASE_MISMATCH
  /\ totals.total_multicase_mismatch
       - Cardinality({rc \in SecondaryCells : Cell(rc) = MULTICASE_MISMATCH})
     = Cardinality({r \in RowIds :
          \E p, q \in Variants(PrimaryTree, rows[r].key) :
             HashOf(PrimaryTree, p) # HashOf(PrimaryTree, q)})

\* a primary key with two variants of different bytes, counted once
C7_Witness ==
  /\ TablePrinted
  /\ Len(rows) = 1
  /\ \E p, q \in Variants(PrimaryTree, rows[1].key) :
        /\ Readable(PrimaryTree, p)
        /\ Readable(PrimaryTree, q)
        /\ PrimaryTree[p] # PrimaryTree[q]
  /\ rows[1].statuses[1] = MULTICASE_MISMATCH
  /\ \A c \in 2..Len(folder_keys) : rows[1].statuses[c] = MISSING
  /\ totals.total_multicase_mismatch = 1

PrimaryEmpty == ~fs[folder_paths[1]].exists \/ DOMAIN PrimaryTree = {}

\* C8: with a primary root that does not exist or holds no file the run prints a
\* message and ends without a row or a summary; with a secondary root that does
\* not exist the run goes on to the table, which has a column for that folder
\* showing MISSING in every row.
C8_RootFailures ==
  /\ (pc = "scan" /\ ~fs[Folder].exists) => ENABLED Next
  /\ (pc = "main" /\ PrimaryEmpty) => ENABLED Next
  /\ PrimaryEmpty =>
       /\ rows = <<>>
       /\ ~summary.printed
       /\ totals = ZeroTotals
       /\ (~fs[folder_paths[1]].exists /\ idx > 1)
            => <<"does not exist", 1>> \in Range(messages)
       /\ pc = "done" => <<"No files found for comparison.", 0>> \in Range(messages)
  /\ (~PrimaryEmpty /\ pc = "done") =>
       /\ summary.printed
       /\ Len(rows) >= 1
       /\ \A i \in 2..Len(folder_paths) :
            ~fs[folder_paths[i]].exists =>
              \E c \in 2..Len(folder_keys) :
                 /\ folder_keys[c] = folder_paths[i]
                 /\ \A r \in RowIds : rows[r].statuses[c] = MISSING

\* a table printed although a secondary root does not exist
C8_Witness ==
  /\ TablePrinted
  /\ Len(rows) = 2
  /\ \E c \in 2..Len(folder_keys) :
       /\ ~fs[folder_keys[c]].exists
       /\ \A r \in RowIds : rows[r].statuses[c] = MISSING

\* the files of the j-th folder argument
ArgFiles(j) == DOMAIN fs[folder_paths[j]].files
\* what os.walk has yielded once the first n folders were walked
WalkedUpTo(n) == UNION {{<<j, p>> : p \in ArgFiles(j)} : j \in 1..n}
\* what was hashed once the first n folders were scanned: the primary wholly, a
\* secondary in the files whose lower-cased path is a key of the primary
HashedUpTo(n) ==
  UNION {{<<j, p>> : p \in {q \in ArgFiles(j) : j = 1 \/ Lower(q) \in PrimaryKeys}} :
           j \in 1..n}

\* C9: folders are scanned one at a time in argument order, the primary first:
\* at any moment the folders before the current one have been walked completely
\* and hashed (the primary wholly, a secondary exactly in the files whose
\* lower-cased path is a primary key) and no later folder has been touched; the
\* current secondary is walked completely before any of its files is hashed; and
\* no secondary file whose lower-cased path is not a primary key is ever hashed.
C9_ScanOrderAndFilter ==
  /\ idx <= Len(folder_paths) + 1
  /\ walked = WalkedUpTo(IF pc = "filter" THEN idx ELSE idx - 1)
  /\ hashed = HashedUpTo(idx - 1)
  /\ \A e \in hashed : e[1] > 1 => Lower(e[2]) \in PrimaryKeys

\* the second secondary walked and not yet hashed, holding a file outside the
\* primary's keys, after the first secondary was hashed only in part
C9_Witness ==
  /\ idx = 3
  /\ pc = "filter"
  /\ \E p \in Paths : <<3, p>> \in walked /\ Lower(p) \notin PrimaryKeys
  /\ \E p \in Paths : <<2, p>> \in hashed
  /\ \E p \in Paths : <<2, p>> \in walked /\ <<2, p>> \notin hashed

\* C10 (as claimed): every row has one status cell for each folder argument, in
\* argument order, also when a folder is named more than once.
C10_OneCellPerArgument ==
  /\ rows # <<>> => folder_keys = folder_paths
  /\ \A r \in RowIds : Len(rows[r].statuses) = Len(folder_paths)
====
